---- MODULE Spec2Model ----
(***************************************************************************)
(* Payment-settlement reconciliation of the CartY backend                  *)
(* (src/backend/server.py): the poll endpoints verify_payment and          *)
(* verify_subscription, the paystack_webhook handler, and the payout       *)
(* handlers request_withdrawal and transfer_to_bank, run as concurrent     *)
(* request handlers over the persisted tables stores, orders,              *)
(* pending_subscriptions and withdrawals.  Every awaited table call        *)
(* (await db(...)) is one atomic step; a call to the payment gateway has   *)
(* no effect on the tables and is taken together with the table call that  *)
(* follows it.                                                             *)
(***************************************************************************)
EXTENDS Integers, Sequences, FiniteSets, TLC

\* ---------------------------------------------------------------- bounds
\* Number of requests served in one behaviour.
MaxRequests == 2

\* ------------------------------------------------------ program constants
MinWithdrawal == 100
SubscriptionDays == 30

\* ------------------------------------------------------------ the universe
\* Two requests can be in flight at the same time.
Handlers == {1, 2}

Stores == {"s1", "s2"}
Slugs == {"a", "b", "zz"}
Users == {"u1", "u2", "u0"}

\* stores.slug is unique; "zz" is the slug of no store.
SlugOf(s) == IF s = "s1" THEN "a" ELSE "b"
\* stores.user_id: one store per user; "u0" has no store.
UserOf(s) == IF s = "s1" THEN "u1" ELSE "u2"

\* A reference is its prefix followed by the token minted for it.
Order0 == <<"carty_", 0>>
Order1 == <<"carty_", 1>>
Order2 == <<"carty_", 2>>
GhostOrder == <<"carty_", 9>>
Sub1 == <<"sub_", 1>>
Withdrawal0 == <<"wd_", 0>>
OtherRef == <<"inv_", 1>>
OrderRefs == {Order0, Order1, Order2}
SubRefs == {Sub1}

\* str.startswith
StartsWith(ref, prefix) == Len(ref) >= 1 /\ ref[1] = prefix

RECURSIVE SumOver(_, _)
SumOver(f, S) ==
    IF S = {} THEN 0
    ELSE LET x == CHOOSE y \in S : TRUE IN f[x] + SumOver(f, S \ {x})

NoTime == -1
NoStore == "none"

\* The history before the behaviour starts.  Store s1 is subscribed and has
\* three orders: Order0 was paid and settled, Order1 and Order2 are pending
\* (checkout inserts an order pending).  s1 has withdrawn part of what Order0
\* earned: Withdrawal0 was accepted by the gateway, debited, and is pending.
\* Store s2 has never subscribed and has a subscription payment under way.
OrderOwner(o) == "s1"
OrderTotal(o) == IF o = Order0 THEN 200 ELSE IF o = Order1 THEN 100 ELSE 40
Settled == {Order0}
OpeningEarnings(s) ==
    SumOver([o \in Settled |-> IF OrderOwner(o) = s THEN OrderTotal(o) ELSE 0], Settled)
OpeningWithdrawals ==
    Withdrawal0 :> [store_id |-> "s1", amount |-> 100, status |-> "pending"]
OpeningBalance(s) ==
    OpeningEarnings(s)
    - SumOver([r \in DOMAIN OpeningWithdrawals |->
                 IF OpeningWithdrawals[r].store_id = s
                 THEN OpeningWithdrawals[r].amount ELSE 0], DOMAIN OpeningWithdrawals)

\* the amounts asked for: below the minimum, payable, above the balance
Amounts == {50, 100, 150}

\* --------------------------------------------------------------- the state
VARIABLES
    stores,        \* table stores: id -> row
    orders,        \* table orders: payment_reference -> row
    pendingSubs,   \* table pending_subscriptions: set of rows
    withdrawals,   \* table withdrawals: reference -> row
    req,           \* the request each handler is serving, with its locals
    nreq,          \* requests started so far
    overlapped,    \* some request started while another was in flight
    pollCredits,   \* ledger credits verify_payment applied: order -> store -> count
    hookCredits,   \* ledger credits paystack_webhook applied: order -> store -> count
    confirmations, \* payment confirmations received: order -> trigger -> count
    notifications, \* seller notifications: order -> emails scheduled, links returned
    movements      \* wallet movements of a withdrawal: reference -> debits, credit-backs

vars == <<stores, orders, pendingSubs, withdrawals, req, nreq, overlapped,
          pollCredits, hookCredits, confirmations, notifications, movements>>

tables == <<stores, orders, pendingSubs, withdrawals>>
orderGhosts == <<pollCredits, hookCredits, confirmations, notifications>>
ghosts == <<orderGhosts, movements>>

Idle == [op |-> "idle", pc |-> "idle"]

InFlight(h) == req[h].op # "idle"
AllIdle == \A h \in Handlers : ~InFlight(h)

Init ==
    /\ stores = [s \in Stores |->
                   [wallet_balance |-> OpeningBalance(s), pending_balance |-> 0,
                    total_earnings |-> OpeningEarnings(s),
                    subscription_status |-> IF s = "s1" THEN "active" ELSE "inactive",
                    subscription_end_date |-> IF s = "s1" THEN SubscriptionDays ELSE NoTime,
                    recipient_code |-> (s = "s1"),
                    email |-> (s = "s1")]]
    /\ orders = [o \in OrderRefs |->
                   [store_id |-> OrderOwner(o), total_amount |-> OrderTotal(o),
                    status |-> IF o \in Settled THEN "completed" ELSE "pending",
                    paid_at |-> IF o \in Settled THEN 0 ELSE NoTime]]
    /\ pendingSubs = {[store_id |-> "s2", reference |-> Sub1]}
    /\ withdrawals = OpeningWithdrawals
    /\ req = [h \in Handlers |-> Idle]
    /\ nreq = 0
    /\ overlapped = FALSE
    /\ pollCredits = [o \in OrderRefs |-> [s \in Stores |-> 0]]
    /\ hookCredits = [o \in OrderRefs |-> [s \in Stores |-> 0]]
    /\ confirmations = [o \in OrderRefs |-> [poll |-> 0, hook |-> 0]]
    /\ notifications = [o \in OrderRefs |-> [email |-> 0, link |-> 0]]
    /\ movements = [r \in DOMAIN OpeningWithdrawals |-> [debits |-> 1, credit_backs |-> 0]]

\* -------------------------------------------------------- table look-ups
\* mutant: a slug of no store falls back to the first store
StoreBySlug_Default(slug) ==
    IF \E s \in Stores : SlugOf(s) = slug
    THEN CHOOSE s \in Stores : SlugOf(s) = slug
    ELSE "s1"

\* one(... .eq('slug', slug).limit(1) ...)
StoreBySlug(slug) ==
    IF \E s \in Stores : SlugOf(s) = slug
    THEN CHOOSE s \in Stores : SlugOf(s) = slug
    ELSE NoStore

\* one(... .eq('user_id', user['id']).limit(1) ...)
StoreByUser(user) ==
    IF \E s \in Stores : UserOf(s) = user
    THEN CHOOSE s \in Stores : UserOf(s) = user
    ELSE NoStore

\* one(... orders ... .eq('payment_reference', reference) ...) finds a row
OrderExists(reference) == reference \in DOMAIN orders

\* ------------------------------------------------------- request handling
\* datetime.utcnow(): every request arrives at a new instant
UtcNow == nreq

\* A response is handed to the caller before any handler takes another step.
Quiet == \A g \in Handlers : req[g].pc # "respond"

\* handler h is serving a request of this kind and stands at this place
At(h, op, pc) == Quiet /\ req[h].op = op /\ req[h].pc = pc

\* A request is taken by the first idle handler.
Free(h) ==
    /\ Quiet
    /\ ~InFlight(h)
    /\ \A g \in Handlers : g < h => InFlight(g)
    /\ nreq < MaxRequests

\* The request arrives; it overlaps when another is in flight.
Accept(h) ==
    /\ Free(h)
    /\ nreq' = nreq + 1
    /\ overlapped' = (overlapped \/ \E g \in Handlers \ {h} : InFlight(g))

\* The handler, with locals r, returns or raises: the HTTP status, the
\* "status" field of the body (the detail of an error), and whether the
\* gateway was called.
Respond(h, r, status, result, gw) ==
    req' = [req EXCEPT ![h] =
              [pc |-> "respond", status |-> status, result |-> result, gw |-> gw] @@ r]

Responded(h) == req[h].pc = "respond"

\* the response has left: the handler is free
Return(h) ==
    /\ Responded(h)
    /\ req' = [req EXCEPT ![h] = Idle]
    /\ UNCHANGED <<tables, nreq, overlapped, ghosts>>

\* ------------------------------------------------ verify_payment (poll)
\* mutant: the completed check is missing
AlreadyCompleted_Never(order) == FALSE

\* order["status"] == "completed": the idempotent short-circuit
AlreadyCompleted(order) == order.status = "completed"

\* The gateway's verify answers: the call raises, or the JSON body carries
\* "status" and data.status.
VerifyAnswers ==
    {[raised |-> TRUE, status |-> FALSE, data_status |-> "none"]}
    \cup [raised : {FALSE}, status : BOOLEAN, data_status : {"success", "abandoned"}]

\* mutant: every answer that arrives is taken for a success
GatewayReportsSuccess_Always(answer) == TRUE

\* mutant: only the envelope's "status" is read, not data.status
GatewayReportsSuccess_EnvelopeOnly(answer) == answer.status

\* data.get("status") and data["data"]["status"] == "success"
GatewayReportsSuccess(answer) == answer.status /\ answer.data_status = "success"

\* the store whose ledger verify_payment reads and writes: .eq('id', store['id'])
PollLedgerStore(store, order) == store

\* the ledger columns written on settlement
Credited(cur, amount) ==
    [wallet_balance |-> cur.wallet_balance + amount,
     total_earnings |-> cur.total_earnings + amount]

WriteLedger(s, row) ==
    [stores EXCEPT ![s].wallet_balance = row.wallet_balance,
                   ![s].total_earnings = row.total_earnings]

\* GET /storefront/{slug}/verify/{reference}: the store is looked up by slug
VerifyPaymentStart(h, slug, reference) ==
    /\ Accept(h)
    /\ LET r == [op |-> "verify_payment", pc |-> "read_order", slug |-> slug,
                 store |-> StoreBySlug(slug), reference |-> reference] IN
       IF StoreBySlug(slug) = NoStore
       THEN Respond(h, r, 404, "Store not found", FALSE)
       ELSE req' = [req EXCEPT ![h] = r]
    /\ UNCHANGED <<tables, ghosts>>

\* the order is looked up by reference; a completed order returns at once
VerifyPaymentReadOrder(h) ==
    /\ At(h, "verify_payment", "read_order")
    /\ IF ~OrderExists(req[h].reference)
       THEN Respond(h, req[h], 404, "Order not found", FALSE)
       ELSE IF AlreadyCompleted(orders[req[h].reference])
       THEN Respond(h, req[h], 200, "success", FALSE)
       ELSE req' = [req EXCEPT ![h] =
                      [pc |-> "gateway", order |-> orders[req[h].reference]] @@ @]
    /\ UNCHANGED <<tables, nreq, overlapped, ghosts>>

\* mutant: the except clause answers as if the payment had been verified
VerifyPaymentGateway_SwallowsError(h, answer) ==
    /\ At(h, "verify_payment", "gateway")
    /\ LET r == [answer |-> answer] @@ req[h] IN
       IF answer.raised \/ ~(answer.status /\ answer.data_status = "success")
       THEN /\ Respond(h, r, 200, IF answer.raised THEN "success" ELSE "failed", TRUE)
            /\ UNCHANGED <<orders, confirmations>>
       ELSE /\ orders' = [orders EXCEPT ![req[h].reference].status = "completed",
                                        ![req[h].reference].paid_at = UtcNow]
            /\ confirmations' = [confirmations EXCEPT ![req[h].reference].poll = @ + 1]
            /\ req' = [req EXCEPT ![h] = [pc |-> "read_ledger", gw |-> TRUE] @@ r]
    /\ UNCHANGED <<stores, pendingSubs, withdrawals, nreq, overlapped,
                   pollCredits, hookCredits, notifications, movements>>

\* the gateway's verify answer; on success the order row is updated
VerifyPaymentGateway(h, answer) ==
    /\ At(h, "verify_payment", "gateway")
    /\ LET r == [answer |-> answer] @@ req[h] IN
       IF answer.raised
       THEN /\ Respond(h, r, 500, "Verification service unavailable", TRUE)
            /\ UNCHANGED <<orders, confirmations>>
       ELSE IF GatewayReportsSuccess(answer)
       THEN /\ orders' = [orders EXCEPT ![req[h].reference].status = "completed",
                                        ![req[h].reference].paid_at = UtcNow]
            /\ confirmations' = [confirmations EXCEPT ![req[h].reference].poll = @ + 1]
            /\ req' = [req EXCEPT ![h] = [pc |-> "read_ledger", gw |-> TRUE] @@ r]
       ELSE /\ Respond(h, r, 200, "failed", TRUE)
            /\ UNCHANGED <<orders, confirmations>>
    /\ UNCHANGED <<stores, pendingSubs, withdrawals, nreq, overlapped,
                   pollCredits, hookCredits, notifications, movements>>

\* cur = the ledger columns of the store found by slug
VerifyPaymentReadLedger(h) ==
    /\ At(h, "verify_payment", "read_ledger")
    /\ LET s == PollLedgerStore(req[h].store, req[h].order.store_id) IN
       req' = [req EXCEPT ![h] =
                 [pc |-> "write_ledger",
                  cur |-> [wallet_balance |-> stores[s].wallet_balance,
                           total_earnings |-> stores[s].total_earnings]] @@ @]
    /\ UNCHANGED <<tables, nreq, overlapped, ghosts>>

\* if store.get("email"): background_tasks.add_task(send_order_email, ...)
EmailsScheduled(store) == IF stores[store].email THEN 1 ELSE 0

\* The ledger is written from cur; then the seller's email is scheduled when
\* the store has one, and the handler returns success with the WhatsApp link.
VerifyPaymentWriteLedger(h) ==
    /\ At(h, "verify_payment", "write_ledger")
    /\ LET s == PollLedgerStore(req[h].store, req[h].order.store_id)
           o == req[h].reference IN
       /\ stores' = WriteLedger(s, Credited(req[h].cur, req[h].order.total_amount))
       /\ pollCredits' = [pollCredits EXCEPT ![o][s] = @ + 1]
       /\ notifications' =
             [notifications EXCEPT ![o].email = @ + EmailsScheduled(req[h].store),
                                   ![o].link = @ + 1]
    /\ Respond(h, [whatsapp_link |-> TRUE] @@ req[h], 200, "success", TRUE)
    /\ UNCHANGED <<orders, pendingSubs, withdrawals, nreq, overlapped,
                   hookCredits, confirmations, movements>>

\* ------------------------------------------------------ paystack_webhook
\* hmac.new(PAYSTACK_SECRET_KEY, body, hashlib.sha512).hexdigest(): a digest is
\* determined by the key and the exact body, and by nothing else.
Secret == "PAYSTACK_SECRET_KEY"
ForgedKey == "not-the-secret"
NoSignature == << >>
Hmac(key, body) == <<"hmac-sha512", key, body>>

\* mutant: a request without the header is let through
SignatureAccepted_MissingPasses(signature, body) ==
    signature = NoSignature \/ signature = Hmac(Secret, body)

\* signature != computed  ->  401
SignatureAccepted(signature, body) == signature = Hmac(Secret, body)

Events == {"charge.success", "transfer.success", "transfer.failed", "charge.failed"}

\* the bodies delivered: every event, for every reference on record and one
\* that is on no record
WebhookRefs == OrderRefs \cup SubRefs \cup DOMAIN withdrawals \cup {OtherRef}
WellFormed == [event : Events, reference : WebhookRefs]

\* a body that is not a JSON document: no event and no reference can be read
Truncated == [event |-> "not-json", reference |-> << >>]
Bodies == WellFormed \cup {Truncated}

\* json.loads(body) returns
JsonLoads(body) == body \in WellFormed

\* An exception no handler catches leaves the endpoint: the caller gets the
\* server's bare 500, not a body or an HTTPException of the handler.
Unhandled == "unhandled exception"

\* the body the gateway signed, when the delivered body was changed afterwards
SignedOriginal(body) ==
    [body EXCEPT !.reference = IF body.reference = OtherRef THEN Order1 ELSE OtherRef]

\* the x-paystack-signature headers sent with a body: none, the gateway's, the
\* gateway's for the body before it was tampered with, one under another key
Signatures(body) ==
    {NoSignature, Hmac(Secret, body), Hmac(Secret, SignedOriginal(body)),
     Hmac(ForgedKey, body)}

\* mutant: every charge.success is taken for an order payment
Route_NoPrefix(body) ==
    IF body.event = "charge.success" THEN "hook_read_order"
    ELSE IF body.event = "transfer.success" THEN "hook_transfer_success"
    ELSE IF body.event = "transfer.failed" THEN "hook_read_withdrawal"
    ELSE "return"

\* the branch of the handler the event and the reference prefix select
Route(body) ==
    IF body.event = "charge.success"
    THEN IF StartsWith(body.reference, "carty_") THEN "hook_read_order"
         ELSE IF StartsWith(body.reference, "sub_") THEN "hook_read_pending"
         ELSE "return"
    ELSE IF body.event = "transfer.success" THEN "hook_transfer_success"
    ELSE IF body.event = "transfer.failed" THEN "hook_read_withdrawal"
    ELSE "return"

\* the signature check, json.loads and the dispatch on event and prefix
WebhookStart(h, body, signature) ==
    /\ Accept(h)
    /\ LET r == [op |-> "paystack_webhook", pc |-> Route(body), body |-> body,
                 signature |-> signature, reference |-> body.reference] IN
       IF ~SignatureAccepted(signature, body)
       THEN /\ Respond(h, r, 401, "Invalid signature", FALSE)
            /\ UNCHANGED confirmations
       ELSE IF ~JsonLoads(body)
       THEN /\ Respond(h, r, 500, Unhandled, FALSE)
            /\ UNCHANGED confirmations
       ELSE /\ IF Route(body) = "return"
               THEN Respond(h, r, 200, "ok", FALSE)
               ELSE req' = [req EXCEPT ![h] = r]
            /\ confirmations' =
                  IF Route(body) = "hook_read_order" /\ OrderExists(body.reference)
                  THEN [confirmations EXCEPT ![body.reference].hook = @ + 1]
                  ELSE confirmations
    /\ UNCHANGED <<tables, pollCredits, hookCredits, notifications, movements>>

\* charge.success, carty_: if order and order["status"] != "completed"
WebhookReadOrder(h) ==
    /\ At(h, "paystack_webhook", "hook_read_order")
    /\ IF OrderExists(req[h].reference) /\ ~AlreadyCompleted(orders[req[h].reference])
       THEN /\ req' = [req EXCEPT ![h] =
                         [pc |-> "hook_update_order",
                          order |-> orders[req[h].reference]] @@ @]
       ELSE Respond(h, req[h], 200, "ok", FALSE)
    /\ UNCHANGED <<tables, nreq, overlapped, ghosts>>

WebhookUpdateOrder(h) ==
    /\ At(h, "paystack_webhook", "hook_update_order")
    /\ orders' = [orders EXCEPT ![req[h].reference].status = "completed",
                                ![req[h].reference].paid_at = UtcNow]
    /\ req' = [req EXCEPT ![h].pc = "hook_read_ledger"]
    /\ UNCHANGED <<stores, pendingSubs, withdrawals, nreq, overlapped, ghosts>>

\* cur = the ledger columns of the order's store
WebhookReadLedger(h) ==
    /\ At(h, "paystack_webhook", "hook_read_ledger")
    /\ LET s == req[h].order.store_id IN
       req' = [req EXCEPT ![h] =
                 [pc |-> "hook_write_ledger",
                  cur |-> [wallet_balance |-> stores[s].wallet_balance,
                           total_earnings |-> stores[s].total_earnings]] @@ @]
    /\ UNCHANGED <<tables, nreq, overlapped, ghosts>>

\* mutant: the ledger row is taken for missing and the credit is skipped
WebhookWriteLedger_NoRow(h) ==
    /\ At(h, "paystack_webhook", "hook_write_ledger")
    /\ Respond(h, req[h], 200, "ok", FALSE)
    /\ UNCHANGED <<tables, nreq, overlapped, ghosts>>

\* if cur: the ledger is written from cur, and the handler returns ok
WebhookWriteLedger(h) ==
    /\ At(h, "paystack_webhook", "hook_write_ledger")
    /\ LET s == req[h].order.store_id
           o == req[h].reference IN
       /\ stores' = WriteLedger(s, Credited(req[h].cur, req[h].order.total_amount))
       /\ hookCredits' = [hookCredits EXCEPT ![o][s] = @ + 1]
    /\ Respond(h, req[h], 200, "ok", FALSE)
    /\ UNCHANGED <<orders, pendingSubs, withdrawals, nreq, overlapped,
                   pollCredits, confirmations, notifications, movements>>

\* one(... pending_subscriptions ... .eq('reference', ref) ...)
PendingFor(reference) == {p \in pendingSubs : p.reference = reference}

\* mutant: the end date is left as it was
Activated_StatusOnly(s, at) ==
    [stores EXCEPT ![s].subscription_status = "active"]

\* the subscription columns written on activation
Activated(s, at) ==
    [stores EXCEPT ![s].subscription_status = "active",
                   ![s].subscription_end_date = at + SubscriptionDays]

\* charge.success, sub_: if pending
WebhookReadPending(h) ==
    /\ At(h, "paystack_webhook", "hook_read_pending")
    /\ IF PendingFor(req[h].reference) # {}
       THEN /\ req' = [req EXCEPT ![h] =
                         [pc |-> "hook_activate",
                          pending |-> CHOOSE p \in PendingFor(req[h].reference) : TRUE] @@ @]
       ELSE Respond(h, req[h], 200, "ok", FALSE)
    /\ UNCHANGED <<tables, nreq, overlapped, ghosts>>

WebhookActivate(h) ==
    /\ At(h, "paystack_webhook", "hook_activate")
    /\ stores' = Activated(req[h].pending.store_id, UtcNow)
    /\ req' = [req EXCEPT ![h].pc = "hook_delete_pending"]
    /\ UNCHANGED <<orders, pendingSubs, withdrawals, nreq, overlapped, ghosts>>

WebhookDeletePending(h) ==
    /\ At(h, "paystack_webhook", "hook_delete_pending")
    /\ pendingSubs' = pendingSubs \ PendingFor(req[h].reference)
    /\ Respond(h, req[h], 200, "ok", FALSE)
    /\ UNCHANGED <<stores, orders, withdrawals, nreq, overlapped, ghosts>>

\* mutant: the update is not restricted to the reference
SetWithdrawalStatus_All(reference, status) ==
    [r \in DOMAIN withdrawals |-> [withdrawals[r] EXCEPT !.status = status]]

\* update(...).eq('reference', ref): the rows with that reference, if any
SetWithdrawalStatus(reference, status) ==
    IF reference \in DOMAIN withdrawals
    THEN [withdrawals EXCEPT ![reference].status = status]
    ELSE withdrawals

\* transfer.success: one update, whatever the row's status
WebhookTransferSuccess(h) ==
    /\ At(h, "paystack_webhook", "hook_transfer_success")
    /\ withdrawals' = SetWithdrawalStatus(req[h].reference, "success")
    /\ Respond(h, req[h], 200, "ok", FALSE)
    /\ UNCHANGED <<stores, orders, pendingSubs, nreq, overlapped, ghosts>>

\* transfer.failed: w = the withdrawal with that reference
WebhookReadWithdrawal(h) ==
    /\ At(h, "paystack_webhook", "hook_read_withdrawal")
    /\ IF req[h].reference \in DOMAIN withdrawals
       THEN /\ req' = [req EXCEPT ![h] =
                         [pc |-> "hook_read_wallet",
                          w |-> withdrawals[req[h].reference]] @@ @]
       ELSE Respond(h, req[h], 200, "ok", FALSE)
    /\ UNCHANGED <<tables, nreq, overlapped, ghosts>>

WebhookReadWallet(h) ==
    /\ At(h, "paystack_webhook", "hook_read_wallet")
    /\ req' = [req EXCEPT ![h] =
                 [pc |-> "hook_credit_back",
                  cur |-> [wallet_balance |-> stores[req[h].w.store_id].wallet_balance]] @@ @]
    /\ UNCHANGED <<tables, nreq, overlapped, ghosts>>

\* mutant: the amount is written over the balance instead of added to it
CreditedBack_Overwrites(cur, amount) == amount

\* the wallet_balance written back: (cur['wallet_balance'] or 0) + w['amount']
CreditedBack(cur, amount) == cur.wallet_balance + amount

WebhookCreditBack(h) ==
    /\ At(h, "paystack_webhook", "hook_credit_back")
    /\ stores' = [stores EXCEPT ![req[h].w.store_id].wallet_balance =
                                    CreditedBack(req[h].cur, req[h].w.amount)]
    /\ movements' = [movements EXCEPT ![req[h].reference].credit_backs = @ + 1]
    /\ req' = [req EXCEPT ![h].pc = "hook_mark_failed"]
    /\ UNCHANGED <<orders, pendingSubs, withdrawals, nreq, overlapped, orderGhosts>>

WebhookMarkFailed(h) ==
    /\ At(h, "paystack_webhook", "hook_mark_failed")
    /\ withdrawals' = SetWithdrawalStatus(req[h].reference, "failed")
    /\ Respond(h, req[h], 200, "ok", FALSE)
    /\ UNCHANGED <<stores, orders, pendingSubs, nreq, overlapped, ghosts>>

\* ---------------------------------------------------- verify_subscription
\* GET /subscription/verify/{reference}: the caller's store
VerifySubscriptionStart(h, user, reference) ==
    /\ Accept(h)
    /\ LET r == [op |-> "verify_subscription", pc |-> "sub_gateway", user |-> user,
                 store |-> StoreByUser(user), reference |-> reference] IN
       IF StoreByUser(user) = NoStore
       THEN Respond(h, r, 404, "Store not found", FALSE)
       ELSE req' = [req EXCEPT ![h] = r]
    /\ UNCHANGED <<tables, ghosts>>

\* the gateway's verify answer; on success the store row is updated
VerifySubscriptionGateway(h, answer) ==
    /\ At(h, "verify_subscription", "sub_gateway")
    /\ LET r == [answer |-> answer] @@ req[h] IN
       IF answer.raised
       THEN /\ Respond(h, r, 500, "Verification service unavailable", TRUE)
            /\ UNCHANGED stores
       ELSE IF GatewayReportsSuccess(answer)
       THEN /\ stores' = Activated(req[h].store, UtcNow)
            /\ req' = [req EXCEPT ![h] = [pc |-> "sub_delete_pending", gw |-> TRUE] @@ r]
       ELSE /\ Respond(h, r, 200, "failed", TRUE)
            /\ UNCHANGED stores
    /\ UNCHANGED <<orders, pendingSubs, withdrawals, nreq, overlapped, ghosts>>

VerifySubscriptionDeletePending(h) ==
    /\ At(h, "verify_subscription", "sub_delete_pending")
    /\ pendingSubs' = pendingSubs \ PendingFor(req[h].reference)
    /\ Respond(h, req[h], 200, "success", TRUE)
    /\ UNCHANGED <<stores, orders, withdrawals, nreq, overlapped, ghosts>>

\* ------------------------------------ request_withdrawal, transfer_to_bank
\* mutant: the minimum is not checked
WithdrawalRejection_NoMinimum(op, row, amount) ==
    IF op = "request_withdrawal" /\ ~row.recipient_code THEN 400
    ELSE IF amount > row.wallet_balance THEN 400
    ELSE 0

\* The checks made on the store row before any gateway call: the status and
\* detail of the HTTPException raised, or 0 when the request passes.
\* transfer_to_bank does not require a recipient_code.
WithdrawalRejection(op, row, amount) ==
    IF op = "request_withdrawal" /\ ~row.recipient_code THEN 400
    ELSE IF amount > row.wallet_balance THEN 400
    ELSE IF amount < MinWithdrawal THEN 400
    ELSE 0

WithdrawalPrefix(op) == IF op = "request_withdrawal" THEN "wd_" ELSE "tr_"

\* f"wd_{uuid.uuid4().hex[:12]}": a reference no row has yet
FreshReference(op) == <<WithdrawalPrefix(op), Cardinality(DOMAIN withdrawals) + 1>>

WithdrawalStart(h, op, user, amount) ==
    /\ Accept(h)
    /\ LET s == StoreByUser(user)
           r == [op |-> op, pc |-> "transfer", user |-> user, store |-> s,
                 amount |-> amount] IN
       IF s = NoStore
       THEN Respond(h, r, 404, "Store not found", FALSE)
       ELSE IF WithdrawalRejection(op, stores[s], amount) # 0
       THEN Respond(h, r, WithdrawalRejection(op, stores[s], amount), "rejected", FALSE)
       ELSE req' = [req EXCEPT ![h] =
                      [wallet_balance |-> stores[s].wallet_balance] @@ r]
    /\ UNCHANGED <<tables, ghosts>>

\* The gateway calls, then the insert of the withdrawal row.  An account the
\* gateway cannot resolve (transfer_to_bank) is a 400, a transport error a 500,
\* both before the insert.
WithdrawalTransfer(h, answer) ==
    /\ \E op \in {"request_withdrawal", "transfer_to_bank"} : At(h, op, "transfer")
    /\ answer = "invalid_account" => req[h].op = "transfer_to_bank"
    /\ IF answer = "invalid_account"
       THEN /\ Respond(h, req[h], 400, "Invalid account number or bank", TRUE)
            /\ UNCHANGED <<withdrawals, movements>>
       ELSE IF answer = "raise"
       THEN /\ Respond(h, req[h], 500, "service unavailable", TRUE)
            /\ UNCHANGED <<withdrawals, movements>>
       ELSE /\ withdrawals' = (FreshReference(req[h].op) :>
                                 [store_id |-> req[h].store, amount |-> req[h].amount,
                                  status |-> "pending"]) @@ withdrawals
            /\ movements' = (FreshReference(req[h].op) :>
                                 [debits |-> 0, credit_backs |-> 0]) @@ movements
            /\ req' = [req EXCEPT ![h] =
                         [pc |-> IF answer = "accepted" THEN "debit" ELSE "mark_failed",
                          gw |-> TRUE,
                          reference |-> FreshReference(req[h].op)] @@ @]
    /\ UNCHANGED <<stores, orders, pendingSubs, nreq, overlapped, orderGhosts>>

\* mutant: the amount is taken off twice
Debited_Twice(wallet_balance, amount) == wallet_balance - amount - amount

\* the wallet_balance written on a debit: store["wallet_balance"] - data.amount
Debited(wallet_balance, amount) == wallet_balance - amount

WithdrawalDebit(h) ==
    /\ \E op \in {"request_withdrawal", "transfer_to_bank"} : At(h, op, "debit")
    /\ stores' = [stores EXCEPT ![req[h].store].wallet_balance =
                                    Debited(req[h].wallet_balance, req[h].amount)]
    /\ movements' = [movements EXCEPT ![req[h].reference].debits = @ + 1]
    /\ Respond(h, req[h], 200, "success", TRUE)
    /\ UNCHANGED <<orders, pendingSubs, withdrawals, nreq, overlapped, orderGhosts>>

WithdrawalMarkFailed(h) ==
    /\ \E op \in {"request_withdrawal", "transfer_to_bank"} : At(h, op, "mark_failed")
    /\ withdrawals' = SetWithdrawalStatus(req[h].reference, "failed")
    /\ Respond(h, req[h], 500, "Withdrawal failed", TRUE)
    /\ UNCHANGED <<stores, orders, pendingSubs, nreq, overlapped, ghosts>>

\* ---------------------------------------------------------------- checkout
\* the active products and their prices; "p9" is the id of no active product
Products == {"p1"}
ProductPrice(product) == 30

\* the carts posted: two of p1, and one of a product that is not on sale
Carts == {<<[product_id |-> "p1", quantity |-> 2]>>,
          <<[product_id |-> "p9", quantity |-> 1]>>}

\* every item of the cart is an active product
CartFound(cart) == \A i \in 1 .. Len(cart) : cart[i].product_id \in Products

\* total_amount += product["price"] * item.quantity
RECURSIVE CartTotal(_)
CartTotal(cart) ==
    IF cart = << >> THEN 0
    ELSE ProductPrice(Head(cart).product_id) * Head(cart).quantity + CartTotal(Tail(cart))

\* mutant: the subscription is not looked at
AcceptsPayments_Always(row) == TRUE

\* store.get("subscription_status") == "active"
AcceptsPayments(row) == row.subscription_status = "active"

\* POST /storefront/{slug}/checkout: the store row, then the products of the
\* cart.  The reference is minted from a fresh uuid.
CheckoutStart(h, slug, cart) ==
    /\ Accept(h)
    /\ LET s == StoreBySlug(slug)
           r == [op |-> "checkout", pc |-> "insert_order", slug |-> slug,
                 store |-> s, cart |-> cart] IN
       IF s = NoStore
       THEN Respond(h, r, 404, "Store not found", FALSE)
       ELSE IF ~AcceptsPayments(stores[s])
       THEN Respond(h, [subscription_status |-> stores[s].subscription_status] @@ r,
                    200, "subscription_required", FALSE)
       ELSE IF ~CartFound(cart)
       THEN Respond(h, [subscription_status |-> stores[s].subscription_status] @@ r,
                    400, "Product not found", FALSE)
       ELSE req' = [req EXCEPT ![h] =
                      [subscription_status |-> stores[s].subscription_status,
                       total_amount |-> CartTotal(cart),
                       reference |-> <<"carty_", nreq' + 2>>] @@ r]
    /\ UNCHANGED <<tables, ghosts>>

\* The order is inserted pending; then the gateway is asked to initialize the
\* payment, and its answer decides the response.  The order stays either way.
CheckoutInsertOrder(h, answer) ==
    /\ At(h, "checkout", "insert_order")
    /\ LET o == req[h].reference IN
       /\ orders' = (o :> [store_id |-> req[h].store,
                           total_amount |-> req[h].total_amount,
                           status |-> "pending", paid_at |-> NoTime]) @@ orders
       /\ pollCredits' = (o :> [s \in Stores |-> 0]) @@ pollCredits
       /\ hookCredits' = (o :> [s \in Stores |-> 0]) @@ hookCredits
       /\ confirmations' = (o :> [poll |-> 0, hook |-> 0]) @@ confirmations
       /\ notifications' = (o :> [email |-> 0, link |-> 0]) @@ notifications
    /\ IF answer = "accepted" THEN Respond(h, req[h], 200, "success", TRUE)
       ELSE IF answer = "refused"
       THEN Respond(h, req[h], 500, "Payment initialization failed", TRUE)
       ELSE Respond(h, req[h], 500, "Payment service unavailable", TRUE)
    /\ UNCHANGED <<stores, pendingSubs, withdrawals, nreq, overlapped, movements>>

\* ------------------------------------------------- initialize_subscription
\* POST /subscription/initialize: the caller's store; the reference is minted
\* from a fresh uuid.
InitializeSubscriptionStart(h, user) ==
    /\ Accept(h)
    /\ LET r == [op |-> "initialize_subscription", pc |-> "insert_pending",
                 user |-> user, store |-> StoreByUser(user),
                 reference |-> <<"sub_", nreq' + 1>>] IN
       IF StoreByUser(user) = NoStore
       THEN Respond(h, r, 404, "Store not found", FALSE)
       ELSE req' = [req EXCEPT ![h] = r]
    /\ UNCHANGED <<tables, ghosts>>

\* The gateway is asked to initialize the payment; when it accepts, the
\* PendingSubscription is inserted.
InitializeSubscriptionInsert(h, answer) ==
    /\ At(h, "initialize_subscription", "insert_pending")
    /\ IF answer = "accepted"
       THEN /\ pendingSubs' = pendingSubs \cup
                                 {[store_id |-> req[h].store, reference |-> req[h].reference]}
            /\ Respond(h, req[h], 200, "initialized", TRUE)
       ELSE /\ UNCHANGED pendingSubs
            /\ IF answer = "refused"
               THEN Respond(h, req[h], 500, "Subscription initialization failed", TRUE)
               ELSE Respond(h, req[h], 500, "Subscription service unavailable", TRUE)
    /\ UNCHANGED <<stores, orders, withdrawals, nreq, overlapped, ghosts>>

\* the gateway's answers to an initialize call
InitializeAnswers == {"accepted", "refused", "raise"}

Next ==
    \/ \E h \in Handlers : Free(h) /\
          \E slug \in Slugs, reference \in OrderRefs \cup {GhostOrder} :
             VerifyPaymentStart(h, slug, reference)
    \/ \E h \in Handlers : Free(h) /\
          \E body \in Bodies :
             \E signature \in Signatures(body) : WebhookStart(h, body, signature)
    \/ \E h \in Handlers : Free(h) /\
          \E user \in Users, reference \in SubRefs \cup {Order1} :
             VerifySubscriptionStart(h, user, reference)
    \/ \E h \in Handlers : Free(h) /\
          \E op \in {"request_withdrawal", "transfer_to_bank"}, user \in Users,
             amount \in Amounts : WithdrawalStart(h, op, user, amount)
    \/ \E h \in Handlers : Return(h)
    \/ \E h \in Handlers : VerifyPaymentReadOrder(h)
    \/ \E h \in Handlers, answer \in VerifyAnswers :
          VerifyPaymentGateway(h, answer)
    \/ \E h \in Handlers : VerifyPaymentReadLedger(h)
    \/ \E h \in Handlers : VerifyPaymentWriteLedger(h)
    \/ \E h \in Handlers : WebhookReadOrder(h)
    \/ \E h \in Handlers : WebhookUpdateOrder(h)
    \/ \E h \in Handlers : WebhookReadLedger(h)
    \/ \E h \in Handlers : WebhookWriteLedger(h)
    \/ \E h \in Handlers : WebhookReadPending(h)
    \/ \E h \in Handlers : WebhookActivate(h)
    \/ \E h \in Handlers : WebhookDeletePending(h)
    \/ \E h \in Handlers : WebhookTransferSuccess(h)
    \/ \E h \in Handlers : WebhookReadWithdrawal(h)
    \/ \E h \in Handlers : WebhookReadWallet(h)
    \/ \E h \in Handlers : WebhookCreditBack(h)
    \/ \E h \in Handlers : WebhookMarkFailed(h)
    \/ \E h \in Handlers, answer \in VerifyAnswers :
          VerifySubscriptionGateway(h, answer)
    \/ \E h \in Handlers : VerifySubscriptionDeletePending(h)
    \/ \E h \in Handlers, answer \in {"accepted", "declined", "raise", "invalid_account"} :
          WithdrawalTransfer(h, answer)
    \/ \E h \in Handlers : WithdrawalDebit(h)
    \/ \E h \in Handlers : WithdrawalMarkFailed(h)

Spec == Init /\ [][Next]_vars

\* What a handler does once its request is taken: every step up to and
\* including the departure of the response.
HandlerStep(h) ==
    \/ Return(h)
    \/ VerifyPaymentReadOrder(h)
    \/ \E answer \in VerifyAnswers : VerifyPaymentGateway(h, answer)
    \/ VerifyPaymentReadLedger(h)
    \/ VerifyPaymentWriteLedger(h)
    \/ WebhookReadOrder(h)
    \/ WebhookUpdateOrder(h)
    \/ WebhookReadLedger(h)
    \/ WebhookWriteLedger(h)
    \/ WebhookReadPending(h)
    \/ WebhookActivate(h)
    \/ WebhookDeletePending(h)
    \/ WebhookTransferSuccess(h)
    \/ WebhookReadWithdrawal(h)
    \/ WebhookReadWallet(h)
    \/ WebhookCreditBack(h)
    \/ WebhookMarkFailed(h)
    \/ \E answer \in VerifyAnswers : VerifySubscriptionGateway(h, answer)
    \/ VerifySubscriptionDeletePending(h)
    \/ \E answer \in {"accepted", "declined", "raise", "invalid_account"} :
          WithdrawalTransfer(h, answer)
    \/ WithdrawalDebit(h)
    \/ WithdrawalMarkFailed(h)

\* Handlers and the calls they await run to completion: a handler that can
\* take its next step is not left waiting forever.  Requests need not arrive.
FairSpec == Init /\ [][Next]_vars /\ \A h \in Handlers : WF_vars(HandlerStep(h))

\* The storefront: the settlement handlers together with the handlers that
\* create what they settle.  Orders and subscription payments created in the
\* behaviour are polled and confirmed like the ones on record at its start.
CreatedOrders == DOMAIN orders \ OrderRefs
CreatedSubs == {p.reference : p \in pendingSubs} \ SubRefs

NextStorefront ==
    \/ Next
    \/ \E h \in Handlers : Free(h) /\
          \E slug \in Slugs, cart \in Carts : CheckoutStart(h, slug, cart)
    \/ \E h \in Handlers, answer \in InitializeAnswers : CheckoutInsertOrder(h, answer)
    \/ \E h \in Handlers : Free(h) /\
          \E user \in Users : InitializeSubscriptionStart(h, user)
    \/ \E h \in Handlers, answer \in InitializeAnswers :
          InitializeSubscriptionInsert(h, answer)
    \/ \E h \in Handlers : Free(h) /\
          \E slug \in Slugs, reference \in CreatedOrders :
             VerifyPaymentStart(h, slug, reference)
    \/ \E h \in Handlers : Free(h) /\
          \E reference \in CreatedOrders \cup CreatedSubs :
             WebhookStart(h, [event |-> "charge.success", reference |-> reference],
                          Hmac(Secret, [event |-> "charge.success", reference |-> reference]))

SpecStorefront == Init /\ [][NextStorefront]_vars

\* ================================================================ claims
PayoutOps == {"request_withdrawal", "transfer_to_bank"}

\* ledger credits applied for an order, the one before the behaviour included
CreditsApplied(o) ==
    SumOver(pollCredits[o], Stores) + SumOver(hookCredits[o], Stores)
    + (IF o \in Settled THEN 1 ELSE 0)

\* a ledger column summed over the stores
TotalWallet == SumOver([s \in Stores |-> stores[s].wallet_balance], Stores)
TotalEarnings == SumOver([s \in Stores |-> stores[s].total_earnings], Stores)
OpeningTotalWallet == SumOver([s \in Stores |-> OpeningBalance(s)], Stores)
OpeningTotalEarnings == SumOver([s \in Stores |-> OpeningEarnings(s)], Stores)

\* what the orders completed in the behaviour owe their store
OwedTo(s) ==
    SumOver([o \in OrderRefs |->
               IF o \notin Settled /\ orders[o].status = "completed"
                  /\ orders[o].store_id = s
               THEN orders[o].total_amount ELSE 0], OrderRefs)

\* C1: for every order reference, whatever the interleaving of poll-verify
\* requests and verified charge.success deliveries, the ledger is credited
\* with the order's total at most once.
C1_AtMostOneCredit == \A o \in OrderRefs : CreditsApplied(o) <= 1

\* C2: when two poll-verify requests for the same pending order both received
\* a gateway success and both have finished, and they are all that ran,
\* wallet_balance and total_earnings have each grown by the order's total
\* exactly once.
C2_TwoPollsOneCredit ==
    \A o \in OrderRefs \ Settled :
        (AllIdle /\ nreq = 2 /\ confirmations[o].poll = 2)
        => /\ TotalWallet = OpeningTotalWallet + OrderTotal(o)
           /\ TotalEarnings = OpeningTotalEarnings + OrderTotal(o)

\* C3, the step: a poll-verify that reads a completed order returns status
\* success without calling the gateway and changes no order and no store.
C3_ShortCircuitStep ==
    \A h \in Handlers :
        ( /\ At(h, "verify_payment", "read_order")
          /\ req'[h] # req[h]
          /\ OrderExists(req[h].reference)
          /\ orders[req[h].reference].status = "completed" )
        => /\ req'[h].pc = "respond"
           /\ req'[h].status = 200
           /\ req'[h].result = "success"
           /\ ~req'[h].gw
           /\ UNCHANGED tables

\* C3, the sequence: requests served one after the other credit every order
\* at most once.
C3_OnceInSequence == ~overlapped => \A o \in OrderRefs : CreditsApplied(o) <= 1

\* C3: once an order is completed, every further poll-verify for its reference
\* returns success without calling the gateway and leaves the order and every
\* store unchanged, so verifying the same reference twice in sequence credits
\* the order total exactly once.
C3_Idempotent == [][C3_ShortCircuitStep]_vars /\ []C3_OnceInSequence

\* C3 witness: a poll settled an order, and a later poll for the same
\* reference was answered success without a gateway call.
C3_Witness ==
    \E h \in Handlers :
        /\ Responded(h) /\ req[h].op = "verify_payment"
        /\ req[h].status = 200 /\ req[h].result = "success" /\ ~req[h].gw
        /\ ~overlapped
        /\ req[h].reference \in OrderRefs \ Settled
        /\ SumOver(pollCredits[req[h].reference], Stores) = 1
        /\ stores["s1"].wallet_balance = OpeningBalance("s1") + OrderTotal(req[h].reference)

\* C4: with the requests served one after the other and no payout under way,
\* the ledger depends only on which orders are completed, not on the trigger
\* (poll, webhook, or both in either order) that completed them: every store
\* holds its opening ledger plus the totals of its orders completed since.
C4_DualPathEquivalence ==
    (AllIdle /\ ~overlapped /\ withdrawals = OpeningWithdrawals)
    => \A s \in Stores :
          /\ stores[s].wallet_balance = OpeningBalance(s) + OwedTo(s)
          /\ stores[s].total_earnings = OpeningEarnings(s) + OwedTo(s)

\* C5, the step: a webhook request whose signature header is absent or is not
\* the HMAC of its body under the secret is answered 401 on arrival and no
\* table changes; one whose signature matches is not answered 401 and is
\* routed by its event, when its body can be parsed.
C5_GateStep ==
    \A h \in Handlers :
        (~InFlight(h) /\ req'[h].op = "paystack_webhook")
        => IF req'[h].signature # Hmac(Secret, req'[h].body)
           THEN /\ req'[h].pc = "respond"
                /\ req'[h].status = 401
                /\ UNCHANGED tables
           ELSE \/ req'[h].pc = "respond" /\ req'[h].status = 200
                \/ req'[h].pc = "respond" /\ req'[h].body \notin WellFormed
                \/ req'[h].pc = Route(req'[h].body) /\ req'[h].pc # "return"

\* C5, afterwards: a request that failed the check is at no place of the
\* handler past the check.
C5_NeverProcessed ==
    \A h \in Handlers :
        (req[h].op = "paystack_webhook" /\ req[h].signature # Hmac(Secret, req[h].body))
        => (Responded(h) /\ req[h].status = 401)

\* C5: the webhook signature gate.
C5_SignatureGate == [][C5_GateStep]_vars /\ []C5_NeverProcessed

\* C5 witness: a transfer.failed body for a withdrawal on record is being
\* processed under its own signature, and the same event with the reference
\* changed after signing has been refused.
C5_Witness ==
    \E h, g \in Handlers :
        /\ req[g].op = "paystack_webhook" /\ req[g].pc = "hook_read_withdrawal"
        /\ req[g].signature = Hmac(Secret, req[g].body)
        /\ Responded(h) /\ req[h].op = "paystack_webhook" /\ req[h].status = 401
        /\ req[h].body.event = "transfer.failed"
        /\ req[h].body.reference = Withdrawal0
        /\ req[h].signature = Hmac(Secret, SignedOriginal(req[h].body))

\* C6, the steps: a transfer.failed for a withdrawal on record goes on to the
\* credit-back; the credit-back, when the balance is still the one the handler
\* read, raises the owning store's wallet_balance by exactly the withdrawal's
\* amount and changes nothing else of any store; the last step sets the
\* withdrawal's status to failed.
C6_Steps ==
    \A h \in Handlers :
        /\ ( /\ At(h, "paystack_webhook", "hook_read_withdrawal")
             /\ req'[h] # req[h]
             /\ req[h].reference \in DOMAIN withdrawals )
           => req'[h].pc = "hook_read_wallet"
        /\ ( /\ At(h, "paystack_webhook", "hook_credit_back")
             /\ req'[h] # req[h]
             /\ stores[req[h].w.store_id].wallet_balance = req[h].cur.wallet_balance )
           => /\ stores'[req[h].w.store_id].wallet_balance =
                    stores[req[h].w.store_id].wallet_balance + req[h].w.amount
              /\ stores' = [stores EXCEPT ![req[h].w.store_id].wallet_balance =
                                              stores'[req[h].w.store_id].wallet_balance]
              /\ req[h].w.amount = withdrawals[req[h].reference].amount
              /\ req[h].w.store_id = withdrawals[req[h].reference].store_id
        /\ ( /\ At(h, "paystack_webhook", "hook_mark_failed")
             /\ req'[h] # req[h] )
           => /\ withdrawals'[req[h].reference].status = "failed"
              /\ UNCHANGED stores

\* C6, the outcome: with the requests served one after the other, when the
\* transfer.failed handler for Withdrawal0 has finished, the store's
\* wallet_balance is its value after the debit plus the amount, and the
\* withdrawal is failed.
C6_SequentialOutcome ==
    \A h \in Handlers :
        ( /\ Responded(h) /\ req[h].op = "paystack_webhook"
          /\ req[h].status = 200
          /\ req[h].body.event = "transfer.failed"
          /\ req[h].reference = Withdrawal0
          /\ ~overlapped /\ nreq = 1 )
        => /\ stores["s1"].wallet_balance = OpeningBalance("s1") + 100
           /\ withdrawals[Withdrawal0].status = "failed"

\* C6: reversal correctness.
C6_Reversal == [][C6_Steps]_vars /\ []C6_SequentialOutcome

\* C6 witness: a withdrawal made and debited in the behaviour has been
\* reversed: its handler has answered, the balance is back to what it was
\* before the debit and the withdrawal is failed.
C6_Witness ==
    \E h \in Handlers :
        /\ Responded(h) /\ req[h].op = "paystack_webhook"
        /\ req[h].body.event = "transfer.failed"
        /\ req[h].reference # Withdrawal0
        /\ req[h].reference \in DOMAIN withdrawals
        /\ ~overlapped
        /\ withdrawals[req[h].reference].status = "failed"
        /\ withdrawals[req[h].reference].amount = 100
        /\ stores["s1"].wallet_balance = OpeningBalance("s1")

\* C7, the step: a withdrawal or transfer request for more than the store's
\* wallet_balance or less than 100 is answered 4xx on arrival, with no gateway
\* call and no table changed.
C7_RejectStep ==
    \A h \in Handlers :
        ( /\ ~InFlight(h)
          /\ req'[h].op \in PayoutOps
          /\ req'[h].store # NoStore
          /\ \/ req'[h].amount > stores[req'[h].store].wallet_balance
             \/ req'[h].amount < 100 )
        => /\ req'[h].pc = "respond"
           /\ req'[h].status \in 400 .. 499
           /\ ~req'[h].gw
           /\ UNCHANGED tables

\* C7, afterwards: a request past the checks asks for at least 100 and at
\* most the balance it read, and so does every withdrawal on record.
C7_OnlyValidProceed ==
    /\ \A h \in Handlers :
          (req[h].op \in PayoutOps /\ req[h].pc \in {"transfer", "debit", "mark_failed"})
          => (req[h].amount >= 100 /\ req[h].amount <= req[h].wallet_balance)
    /\ \A r \in DOMAIN withdrawals : withdrawals[r].amount >= 100

\* C7: withdrawal validation.
C7_Validation == [][C7_RejectStep]_vars /\ []C7_OnlyValidProceed

\* C7 witness: 150 asked of a store with recipient and balance 100, refused
\* with 400 before any gateway call.
C7_Witness ==
    \E h \in Handlers :
        /\ Responded(h) /\ req[h].op = "request_withdrawal"
        /\ req[h].store = "s1" /\ req[h].amount = 150
        /\ stores["s1"].wallet_balance = 100
        /\ req[h].status = 400 /\ ~req[h].gw
        /\ DOMAIN withdrawals = DOMAIN OpeningWithdrawals

\* C8: every ledger credit poll-verify applies for an order goes to the store
\* that owns the order.
C8_CreditsOwner ==
    \A o \in OrderRefs, s \in Stores :
        pollCredits[o][s] > 0 => s = orders[o].store_id

\* C9, the step: when the gateway's verify answer is not a success,
\* verify_payment and verify_subscription answer status failed and change no
\* table.
C9_FailedStep ==
    \A h \in Handlers :
        ( /\ \/ At(h, "verify_payment", "gateway")
             \/ At(h, "verify_subscription", "sub_gateway")
          /\ req'[h] # req[h]
          /\ ~req'[h].answer.raised
          /\ ~(req'[h].answer.status /\ req'[h].answer.data_status = "success") )
        => /\ req'[h].pc = "respond"
           /\ req'[h].status = 200
           /\ req'[h].result = "failed"
           /\ UNCHANGED tables

\* C9: a gateway verify answer that is not a success leaves every table as
\* it was, and the poll endpoint answers failed.
C9_FailureLeavesState == [][C9_FailedStep]_vars

\* C9 witness: verify_subscription was answered failed on a gateway answer
\* whose envelope is fine but whose data.status is not success; the store is
\* still inactive and its PendingSubscription is kept.
C9_Witness ==
    \E h \in Handlers :
        /\ Responded(h) /\ req[h].op = "verify_subscription"
        /\ req[h].result = "failed"
        /\ req[h].answer.status /\ req[h].answer.data_status = "abandoned"
        /\ req[h].store = "s2" /\ req[h].reference = Sub1
        /\ stores["s2"].subscription_status = "inactive"
        /\ PendingFor(Sub1) # {}

\* C10, the step: when the gateway verify call raises, poll-verify answers
\* 5xx, not success, and changes no table.
C10_RaiseStep ==
    \A h \in Handlers :
        ( /\ At(h, "verify_payment", "gateway")
          /\ req'[h] # req[h]
          /\ req'[h].answer.raised )
        => /\ req'[h].pc = "respond"
           /\ req'[h].status \in 500 .. 599
           /\ req'[h].result # "success"
           /\ UNCHANGED tables

\* C10, the outcome: with the requests served one after the other, the order
\* of a poll-verify that ended on a gateway error is still pending.
C10_StillPending ==
    \A h \in Handlers :
        ( /\ Responded(h) /\ req[h].op = "verify_payment"
          /\ "answer" \in DOMAIN req[h]
          /\ req[h].answer.raised
          /\ ~overlapped )
        => /\ orders[req[h].reference].status = "pending"
           /\ orders[req[h].reference].paid_at = NoTime

\* C10: a gateway error surfaces as a 5xx and settles nothing.
C10_GatewayError == [][C10_RaiseStep]_vars /\ []C10_StillPending

\* C10 witness: a poll-verify for pending Order1 ended on a gateway error
\* with a 500; the order is pending and the ledger is the opening one.
C10_Witness ==
    \E h \in Handlers :
        /\ Responded(h) /\ req[h].op = "verify_payment"
        /\ req[h].reference = Order1
        /\ "answer" \in DOMAIN req[h] /\ req[h].answer.raised
        /\ req[h].status = 500
        /\ orders[Order1].status = "pending"
        /\ stores["s1"].wallet_balance = OpeningBalance("s1")
        /\ stores["s1"].total_earnings = OpeningEarnings("s1")

\* C11, the step: a poll-verify whose slug is the slug of no store is answered
\* 404 on arrival, and one whose reference is the reference of no order is
\* answered 404 when the order is looked up; neither calls the gateway and
\* neither changes a table.
C11_NotFoundStep ==
    \A h \in Handlers :
        /\ ( /\ ~InFlight(h)
             /\ req'[h].op = "verify_payment"
             /\ \A s \in Stores : SlugOf(s) # req'[h].slug )
           => /\ req'[h].pc = "respond"
              /\ req'[h].status = 404
              /\ ~req'[h].gw
              /\ UNCHANGED tables
        /\ ( /\ At(h, "verify_payment", "read_order")
             /\ req'[h] # req[h]
             /\ req[h].reference \notin DOMAIN orders )
           => /\ req'[h].pc = "respond"
              /\ req'[h].status = 404
              /\ ~req'[h].gw
              /\ UNCHANGED tables

\* C11, afterwards: no poll-verify for an unknown store or an unknown order
\* stands at the gateway call or at a ledger step.
C11_NeverProceeds ==
    \A h \in Handlers :
        ( /\ req[h].op = "verify_payment"
          /\ \/ \A s \in Stores : SlugOf(s) # req[h].slug
             \/ req[h].reference \notin DOMAIN orders )
        => \/ req[h].pc = "read_order"
           \/ Responded(h) /\ req[h].status = 404

\* C11: poll-verify with a slug that matches no store, or a reference that
\* matches no order, returns 404 without calling the gateway and without
\* changing any order or store.
C11_NotFound == [][C11_NotFoundStep]_vars /\ []C11_NeverProceeds

\* C11 witness: after a first request, a poll-verify under the slug of store s1
\* for a reference no order carries has been answered 404 "Order not found"
\* with no gateway call.
C11_Witness ==
    \E h \in Handlers :
        /\ Responded(h) /\ req[h].op = "verify_payment"
        /\ req[h].slug = "a" /\ req[h].reference = GhostOrder
        /\ req[h].status = 404 /\ req[h].result = "Order not found"
        /\ ~req[h].gw
        /\ nreq = 2

\* C12, the steps: when verify_subscription gets a gateway success, or the
\* webhook handler of a verified charge.success with a sub_ reference has found
\* a PendingSubscription, the store row is written active with an end date 30
\* days after the time of the write, and the step after it deletes every
\* PendingSubscription with the reference.
C12_ResolveSteps ==
    \A h \in Handlers :
        /\ ( /\ At(h, "verify_subscription", "sub_gateway")
             /\ req'[h] # req[h]
             /\ ~req'[h].answer.raised
             /\ req'[h].answer.status /\ req'[h].answer.data_status = "success" )
           => /\ stores'[req[h].store].subscription_status = "active"
              /\ stores'[req[h].store].subscription_end_date = nreq + 30
              /\ req'[h].pc = "sub_delete_pending"
        /\ ( /\ At(h, "paystack_webhook", "hook_read_pending")
             /\ req'[h] # req[h]
             /\ \E p \in pendingSubs : p.reference = req[h].reference )
           => /\ req'[h].pc = "hook_activate"
              /\ req'[h].pending \in pendingSubs
              /\ req'[h].pending.reference = req[h].reference
        /\ ( /\ At(h, "paystack_webhook", "hook_activate")
             /\ req'[h] # req[h] )
           => /\ stores'[req[h].pending.store_id].subscription_status = "active"
              /\ stores'[req[h].pending.store_id].subscription_end_date = nreq + 30
              /\ req'[h].pc = "hook_delete_pending"
        /\ ( /\ \/ At(h, "verify_subscription", "sub_delete_pending")
                \/ At(h, "paystack_webhook", "hook_delete_pending")
             /\ req'[h] # req[h] )
           => /\ \A p \in pendingSubs' : p.reference # req[h].reference
              /\ req'[h].pc = "respond"
              /\ req'[h].status = 200

\* C12, the outcome: with the requests served one after the other, when a
\* resolving handler has answered, the store it resolved for is active until
\* 30 days after the request's time and no PendingSubscription carries the
\* reference.
C12_ResolvedOutcome ==
    \A h \in Handlers :
        /\ ( /\ Responded(h) /\ req[h].op = "verify_subscription"
             /\ req[h].result = "success"
             /\ ~overlapped )
           => /\ stores[req[h].store].subscription_status = "active"
              /\ stores[req[h].store].subscription_end_date = nreq + 30
              /\ \A p \in pendingSubs : p.reference # req[h].reference
        /\ ( /\ Responded(h) /\ req[h].op = "paystack_webhook"
             /\ "pending" \in DOMAIN req[h]
             /\ ~overlapped )
           => /\ stores[req[h].pending.store_id].subscription_status = "active"
              /\ stores[req[h].pending.store_id].subscription_end_date = nreq + 30
              /\ \A p \in pendingSubs : p.reference # req[h].reference

\* C12: a subscription reference resolved by verify_subscription with a
\* gateway success, or by a verified charge.success webhook with a sub_
\* reference that has a PendingSubscription, makes the store active, sets
\* subscription_end_date to the resolution time plus 30 days and deletes the
\* PendingSubscription with that reference.
C12_SubscriptionResolved == [][C12_ResolveSteps]_vars /\ []C12_ResolvedOutcome

\* C12 witness: the second request, a verified charge.success for sub_1, found
\* the PendingSubscription of store s2 and has answered: s2, inactive at the
\* start, is active until 32 and the PendingSubscription is gone.
C12_Witness ==
    \E h \in Handlers :
        /\ Responded(h) /\ req[h].op = "paystack_webhook"
        /\ req[h].body.event = "charge.success" /\ req[h].reference = Sub1
        /\ "pending" \in DOMAIN req[h] /\ req[h].pending.store_id = "s2"
        /\ ~overlapped /\ nreq = 2
        /\ stores["s2"].subscription_status = "active"
        /\ stores["s2"].subscription_end_date = 32
        /\ pendingSubs = {}

\* the subscription columns of every store
Subscriptions ==
    [s \in Stores |-> <<stores[s].subscription_status, stores[s].subscription_end_date>>]

\* C13, the step: with the requests served one after the other, once no
\* PendingSubscription carries reference sub_1 any more, a further verified
\* charge.success webhook for it, and a further verify_subscription for it
\* that the gateway answers with success, end without an error and leave
\* subscription_status and subscription_end_date of every store as they were.
C13_DuplicateStep ==
    \A h \in Handlers :
        /\ ( /\ ~overlapped
             /\ At(h, "paystack_webhook", "hook_read_pending")
             /\ req'[h] # req[h]
             /\ req[h].reference \in SubRefs
             /\ \A p \in pendingSubs : p.reference # req[h].reference )
           => /\ req'[h].pc = "respond"
              /\ req'[h].status < 400
              /\ Subscriptions' = Subscriptions
        /\ ( /\ ~overlapped
             /\ At(h, "verify_subscription", "sub_gateway")
             /\ req'[h] # req[h]
             /\ req[h].reference \in SubRefs
             /\ \A p \in pendingSubs : p.reference # req[h].reference
             /\ ~req'[h].answer.raised
             /\ req'[h].answer.status /\ req'[h].answer.data_status = "success" )
           => /\ req'[h].pc = "respond" => req'[h].status < 400
              /\ Subscriptions' = Subscriptions

\* C13: once a subscription reference has been resolved (its
\* PendingSubscription deleted), every further delivery for it, by the webhook
\* or by verify_subscription, is a no-op: no error, and subscription_status and
\* subscription_end_date unchanged.
C13_DuplicateIsNoOp == [][C13_DuplicateStep]_vars

\* the ledger columns of every store
Ledger ==
    [s \in Stores |-> <<stores[s].wallet_balance, stores[s].total_earnings>>]

\* C14, the dispatch: a verified charge.success goes to the order branch when
\* its reference starts with carty_, to the subscription branch when it starts
\* with sub_, and is answered at once, with no table changed, for any other
\* reference.
C14_DispatchStep ==
    \A h \in Handlers :
        ( /\ ~InFlight(h)
          /\ req'[h].op = "paystack_webhook"
          /\ req'[h].signature = Hmac(Secret, req'[h].body)
          /\ req'[h].body.event = "charge.success" )
        => /\ UNCHANGED tables
           /\ IF req'[h].reference[1] = "carty_" THEN req'[h].pc = "hook_read_order"
              ELSE IF req'[h].reference[1] = "sub_" THEN req'[h].pc = "hook_read_pending"
              ELSE req'[h].pc = "respond" /\ req'[h].status = 200

\* C14, the effects: a step of the webhook handler for a charge.success changes
\* orders or the ledger only under a carty_ reference, subscription columns or
\* pending_subscriptions only under a sub_ reference, and never a withdrawal;
\* a step of the webhook handler that changes a withdrawal belongs to a
\* transfer.success or transfer.failed event with a wd_ or tr_ reference.
C14_EffectStep ==
    \A h \in Handlers :
        (req[h].op = "paystack_webhook" /\ req'[h] # req[h])
        => /\ req[h].body.event = "charge.success"
              => /\ (orders' # orders \/ Ledger' # Ledger)
                    => req[h].reference[1] = "carty_"
                 /\ (Subscriptions' # Subscriptions \/ pendingSubs' # pendingSubs)
                    => req[h].reference[1] = "sub_"
                 /\ withdrawals' = withdrawals
           /\ withdrawals' # withdrawals
              => /\ req[h].body.event \in {"transfer.success", "transfer.failed"}
                 /\ req[h].reference[1] \in {"wd_", "tr_"}

\* C14: webhook routing follows the reference prefix: a verified
\* charge.success changes order and ledger state only for a carty_ reference,
\* subscription state only for a sub_ reference and nothing for any other;
\* the webhook changes withdrawal records only on transfer.success or
\* transfer.failed events carrying a wd_ or tr_ reference.
C14_PrefixRouting == [][C14_DispatchStep /\ C14_EffectStep]_vars

\* C14 witness: a transfer made by transfer_to_bank in the behaviour, under a
\* tr_ reference, has been marked success by a verified transfer.success
\* webhook carrying that reference.
C14_Witness ==
    \E h \in Handlers :
        /\ Responded(h) /\ req[h].op = "paystack_webhook"
        /\ req[h].body.event = "transfer.success"
        /\ req[h].reference[1] = "tr_"
        /\ req[h].reference \in DOMAIN withdrawals
        /\ withdrawals[req[h].reference].status = "success"
        /\ withdrawals[Withdrawal0].status = "pending"

\* handler h takes the step that writes status completed and paid_at to the
\* order of its reference
WritesOrder(h) ==
    /\ req'[h] # req[h]
    /\ \/ At(h, "paystack_webhook", "hook_update_order")
       \/ At(h, "verify_payment", "gateway") /\ req'[h].pc = "read_ledger"

\* C15, the step: no order is deleted, a completed order's row (its status and
\* its paid_at) is never changed again, and a trigger writes status completed
\* and paid_at only to an order that is not completed yet.
C15_WriteOnceStep ==
    /\ \A o \in DOMAIN orders :
          /\ o \in DOMAIN orders'
          /\ orders[o].status = "completed" => orders'[o] = orders[o]
    /\ \A h \in Handlers :
          WritesOrder(h) => orders[req[h].reference].status # "completed"

\* C15: each order is mutated exactly once to completed: across any
\* interleaving of poll and webhook triggers only the trigger that wins writes
\* status completed and paid_at, paid_at is never overwritten afterwards, the
\* status never returns to pending and the order is never deleted.
C15_MutatedOnce == [][C15_WriteOnceStep]_vars

\* C16, the step: no step lowers a store's total_earnings or pending_balance.
C16_NonDecreasingStep ==
    \A s \in Stores :
        /\ stores'[s].total_earnings >= stores[s].total_earnings
        /\ stores'[s].pending_balance >= stores[s].pending_balance

\* C16: for every store, total_earnings and pending_balance are monotonic
\* non-decreasing over every sequence and interleaving of settlement,
\* withdrawal and webhook operations: no step writes a total_earnings lower
\* than the value it replaces.
C16_MonotonicEarnings == [][C16_NonDecreasingStep]_vars

\* withdrawal r leaves pending in this step
LeavesPending(r) ==
    /\ withdrawals[r].status = "pending"
    /\ r \in DOMAIN withdrawals'
    /\ withdrawals'[r].status # "pending"

\* the step is one of the webhook handler h, serving a verified
\* transfer.success or transfer.failed event for r, and sets the status the
\* event names
ByTransferWebhook(h, r) ==
    /\ req[h].op = "paystack_webhook"
    /\ req'[h] # req[h]
    /\ req[h].signature = Hmac(Secret, req[h].body)
    /\ req[h].body.reference = r
    /\ \/ req[h].body.event = "transfer.success" /\ withdrawals'[r].status = "success"
       \/ req[h].body.event = "transfer.failed" /\ withdrawals'[r].status = "failed"

\* C17 as stated: a withdrawal's status changes from pending to success or
\* failed only as the effect of a verified transfer.success or transfer.failed
\* webhook event, never of a client request handler.
C17_WebhookOnly ==
    [][\A r \in DOMAIN withdrawals :
          LeavesPending(r) => \E h \in Handlers : ByTransferWebhook(h, r)]_vars

\* C17, amended, the step: a withdrawal leaves pending either by a verified
\* transfer.success or transfer.failed webhook event for its reference, or by
\* the payout handler that inserted it in the same request, which sets it
\* failed, debiting nothing, when the gateway did not accept the transfer.
C17_AdvanceStep ==
    \A r \in DOMAIN withdrawals :
        LeavesPending(r)
        => \E h \in Handlers :
              \/ ByTransferWebhook(h, r)
              \/ /\ req[h].op \in PayoutOps
                 /\ req[h].pc = "mark_failed"
                 /\ req'[h].pc = "respond" /\ req'[h].status = 500
                 /\ req[h].reference = r
                 /\ r \notin DOMAIN OpeningWithdrawals
                 /\ withdrawals[r].store_id = req[h].store
                 /\ withdrawals'[r].status = "failed"
                 /\ UNCHANGED stores

\* C17, amended: a withdrawal's status advances out of pending only through a
\* verified transfer webhook, or through its own creating request when the
\* gateway refuses the transfer at initiation; no request changes the status
\* of a withdrawal another request created.
C17_WebhookOrCreator == [][C17_AdvanceStep]_vars

\* C17 witness: Withdrawal0 was set to success by a verified transfer.success
\* webhook, and a later request_withdrawal that the gateway declined has
\* marked its own withdrawal failed and answered 500.
C17_Witness ==
    \E h \in Handlers :
        /\ Responded(h) /\ req[h].op = "request_withdrawal"
        /\ req[h].status = 500 /\ "reference" \in DOMAIN req[h]
        /\ withdrawals[req[h].reference].status = "failed"
        /\ withdrawals[Withdrawal0].status = "success"
        /\ stores["s1"].wallet_balance = OpeningBalance("s1")

\* C18: for every order settled through the poll endpoint with a gateway
\* success, once every handler has finished, exactly one WhatsApp link has
\* been generated and returned, and exactly one seller email has been
\* scheduled when the store polled under has an email on file, none when it
\* has none.
C18_OneNotification ==
    \A o \in OrderRefs :
        (AllIdle /\ confirmations[o].poll >= 1)
        => /\ notifications[o].link = 1
           /\ notifications[o].email =
                 IF \E s \in Stores : pollCredits[o][s] > 0 /\ stores[s].email
                 THEN 1 ELSE 0

\* C19: every poll-verify and webhook request ends with a structured outcome,
\* a status body or an HTTPException of the handler, never an exception that
\* leaves the handler uncaught, also when the parsing of a signature-verified
\* webhook body fails.
C19_StructuredOutcome ==
    \A h \in Handlers :
        (Responded(h) /\ req[h].op \in {"verify_payment", "paystack_webhook"})
        => req[h].result # Unhandled

\* C20: when the two pending orders of store s1 were settled by two handlers
\* in flight together, by any mix of poll and webhook triggers, each order
\* credited once and to s1, then after both handlers have finished s1's
\* wallet_balance and total_earnings have each grown by the sum of the two
\* order totals.
C20_NoLostCredit ==
    ( /\ AllIdle /\ nreq = 2 /\ overlapped
      /\ \A o \in {Order1, Order2} :
            /\ orders[o].status = "completed"
            /\ pollCredits[o]["s1"] + hookCredits[o]["s1"] = 1
            /\ pollCredits[o]["s2"] + hookCredits[o]["s2"] = 0 )
    => /\ stores["s1"].wallet_balance =
             OpeningBalance("s1") + OrderTotal(Order1) + OrderTotal(Order2)
       /\ stores["s1"].total_earnings =
             OpeningEarnings("s1") + OrderTotal(Order1) + OrderTotal(Order2)

\* C21, the step: a withdrawal or transfer the gateway accepted has its
\* withdrawal on record as pending, and its debit write lowers the store's
\* wallet_balance by exactly the requested amount from the balance the store
\* has at the moment of the write.
C21_DebitStep ==
    \A h \in Handlers :
        ( /\ req[h].op \in PayoutOps
          /\ At(h, req[h].op, "debit")
          /\ req'[h] # req[h] )
        => /\ withdrawals[req[h].reference].amount = req[h].amount
           /\ withdrawals[req[h].reference].store_id = req[h].store
           /\ stores'[req[h].store].wallet_balance =
                 stores[req[h].store].wallet_balance - req[h].amount

\* C21: an accepted withdrawal or transfer creates a pending withdrawal and
\* lowers wallet_balance by exactly the requested amount relative to the
\* balance at the moment of the debit write, in every interleaving with
\* credits, credit-backs and other debits on the same store between the
\* handler's initial store read and its debit write.
C21_ExactDebit == [][C21_DebitStep]_vars

\* the withdrawals of store s the gateway accepted and that were not credited
\* back: debited, and more often than credited back
Outstanding(s) ==
    {r \in DOMAIN withdrawals :
        withdrawals[r].store_id = s
        /\ movements[r].debits > movements[r].credit_backs}

\* the amounts paid out of store s
PaidOut(s) ==
    SumOver([r \in DOMAIN withdrawals |->
               IF r \in Outstanding(s) THEN withdrawals[r].amount ELSE 0],
            DOMAIN withdrawals)

\* the settlement credits applied to store s, the ones before the behaviour
\* included
CreditsTo(s) ==
    OpeningEarnings(s)
    + SumOver([o \in OrderRefs |->
                 (pollCredits[o][s] + hookCredits[o][s]) * OrderTotal(o)], OrderRefs)

\* C22: no overdraft: for every store and in every interleaving of withdrawal
\* and transfer requests, the amounts of the withdrawals that the gateway
\* accepted and that were not credited back never add up to more than the
\* settlement credits applied to the store.
C22_NoOverdraft == \A s \in Stores : PaidOut(s) <= CreditsTo(s)

\* C23: for every withdrawal reference the wallet credit-backs applied by
\* transfer.failed events never outnumber the debits applied for it, and there
\* is at most one debit: a duplicate transfer.failed, or one for a withdrawal
\* marked failed at initiation and never debited, does not raise
\* wallet_balance.  Stated for the requests served one after the other, where
\* no event can reach a withdrawal before its own request has finished.
C23_CreditBackBounded ==
    ~overlapped
    => \A r \in DOMAIN withdrawals :
          /\ movements[r].debits <= 1
          /\ movements[r].credit_backs <= movements[r].debits

\* the amounts of store s's withdrawals whose status is pending or success
Withdrawn(s) ==
    SumOver([r \in DOMAIN withdrawals |->
               IF withdrawals[r].store_id = s
                  /\ withdrawals[r].status \in {"pending", "success"}
               THEN withdrawals[r].amount ELSE 0],
            DOMAIN withdrawals)

\* C24: ledger conservation: in every reachable state with no request in
\* flight, each store's wallet_balance equals its total_earnings minus the
\* amounts of its withdrawals whose status is pending or success.
C24_Conservation ==
    AllIdle
    => \A s \in Stores :
          stores[s].wallet_balance = stores[s].total_earnings - Withdrawn(s)

\* C25, the step: a store's subscription_status changes to active only in a
\* step of a handler whose reference is, at that moment, the reference of a
\* PendingSubscription of that same store.
C25_ActivationStep ==
    \A s \in Stores :
        ( /\ stores[s].subscription_status # "active"
          /\ stores'[s].subscription_status = "active" )
        => \E h \in Handlers :
              /\ req'[h] # req[h]
              /\ \E p \in pendingSubs :
                    p.store_id = s /\ p.reference = req[h].reference

\* C25: a store becomes active only through a payment reference for which a
\* PendingSubscription of that same store exists at resolution time: neither
\* verify_subscription nor the webhook activates a store on an order
\* reference, on another store's pending subscription or on a reference
\* already resolved.
C25_ActivationNeedsPending == [][C25_ActivationStep]_vars

\* handler h holds a payment confirmation for order o after the step: a
\* gateway verify answer reporting success, or a signature-verified
\* charge.success webhook naming o
HoldsConfirmation(h, o) ==
    /\ req[h].reference = o
    /\ \/ /\ req[h].op = "verify_payment"
          /\ "answer" \in DOMAIN req'[h]
          /\ ~req'[h].answer.raised
          /\ req'[h].answer.status /\ req'[h].answer.data_status = "success"
       \/ /\ req[h].op = "paystack_webhook"
          /\ req[h].signature = Hmac(Secret, req[h].body)
          /\ req[h].body.event = "charge.success"
          /\ req[h].body.reference = o

\* C26, the step: an order is set to completed, and a ledger credit for it is
\* applied, only in a step of a handler that holds a payment confirmation for
\* that order's reference.
C26_ConfirmedStep ==
    \A o \in OrderRefs :
        ( \/ orders[o].status # "completed" /\ orders'[o].status = "completed"
          \/ \E s \in Stores : pollCredits'[o][s] > pollCredits[o][s]
          \/ \E s \in Stores : hookCredits'[o][s] > hookCredits[o][s] )
        => \E h \in Handlers : req'[h] # req[h] /\ HoldsConfirmation(h, o)

\* C26, the state: an order completed in the behaviour, and an order a ledger
\* credit was applied for, has had a payment confirmation received.
C26_ConfirmedBefore ==
    \A o \in OrderRefs :
        ( \/ o \notin Settled /\ orders[o].status = "completed"
          \/ \E s \in Stores : pollCredits[o][s] + hookCredits[o][s] > 0 )
        => confirmations[o].poll + confirmations[o].hook >= 1

\* C26: in every reachable state an order is completed, and a store's ledger
\* carries a credit for it, only if a payment confirmation for the order's
\* reference was received before: a gateway verify answer reporting success,
\* or a signature-verified charge.success webhook naming that reference.
C26_OnlyAfterConfirmation == [][C26_ConfirmedStep]_vars /\ []C26_ConfirmedBefore

\* C26 witness: pending order carty_1 was completed and credited to s1 by the
\* webhook handler, on one verified charge.success delivery and no poll.
C26_Witness ==
    /\ AllIdle
    /\ orders[Order1].status = "completed"
    /\ hookCredits[Order1]["s1"] = 1
    /\ confirmations[Order1] = [poll |-> 0, hook |-> 1]
    /\ stores["s1"].wallet_balance = OpeningBalance("s1") + OrderTotal(Order1)

\* C27, the step: with the requests served one after the other, a step of the
\* webhook handler for a transfer.success or transfer.failed whose withdrawal
\* is already success or failed changes neither that status nor the store's
\* wallet_balance.
C27_TerminalStep ==
    \A h \in Handlers :
        ( /\ ~overlapped
          /\ req[h].op = "paystack_webhook"
          /\ req'[h] # req[h]
          /\ req[h].body.event \in {"transfer.success", "transfer.failed"}
          /\ req[h].reference \in DOMAIN withdrawals
          /\ withdrawals[req[h].reference].status \in {"success", "failed"} )
        => /\ withdrawals'[req[h].reference].status =
                 withdrawals[req[h].reference].status
           /\ stores'[withdrawals[req[h].reference].store_id].wallet_balance =
                 stores[withdrawals[req[h].reference].store_id].wallet_balance

\* C27: success and failed are terminal: once a withdrawal is success or
\* failed, no later transfer.success or transfer.failed webhook, duplicate or
\* contradictory, changes its status or the store's wallet_balance.
C27_TerminalStatus == [][C27_TerminalStep]_vars

\* C28: in every reachable state and every interleaving of settlement,
\* withdrawal, transfer and webhook operations, every store's wallet_balance is
\* non-negative.
C28_NonNegativeWallet == \A s \in Stores : stores[s].wallet_balance >= 0

\* C28 witness: two withdrawals of 100 in flight together both passed the
\* check against the balance 100 and both were debited; the wallet stands at 0
\* with three withdrawals of 100 pending.
C28_Witness ==
    /\ AllIdle /\ overlapped
    /\ stores["s1"].wallet_balance = 0
    /\ Cardinality({r \in DOMAIN withdrawals :
                       /\ withdrawals[r].status = "pending"
                       /\ withdrawals[r].amount = 100
                       /\ movements[r].debits = 1}) = 3

\* C29: a checkout for a store whose subscription is not active answers
\* subscription_required, creates no order and calls no gateway; an order is
\* only ever created pending, under a reference with the carty_ prefix, by a
\* checkout that read its store as active.
C29_CheckoutStep ==
    /\ \A h \in Handlers :
          (/\ req[h] = Idle /\ req'[h].op = "checkout"
           /\ req'[h].store # NoStore
           /\ stores[req'[h].store].subscription_status # "active")
          => /\ req'[h].pc = "respond"
             /\ req'[h].status = 200
             /\ req'[h].result = "subscription_required"
             /\ ~req'[h].gw
             /\ UNCHANGED tables
    /\ \A o \in DOMAIN orders' \ DOMAIN orders :
          /\ orders'[o].status = "pending"
          /\ StartsWith(o, "carty_")
          /\ \E h \in Handlers :
                /\ req[h].op = "checkout" /\ req[h].pc = "insert_order"
                /\ req[h].reference = o
                /\ req[h].subscription_status = "active"
                /\ orders'[o].store_id = req[h].store
    /\ \A h \in Handlers :
          (Responded(h) /\ req[h].op = "checkout"
           /\ req[h].result = "subscription_required")
          => req'[h] = Idle
C29_SubscriptionRequired == [][C29_CheckoutStep]_vars

\* C29 witness: one checkout created an order for the subscribed store, and a
\* checkout for the store that never subscribed has answered
\* subscription_required; the only order created is the first one's.
C29_Witness ==
    /\ \E o \in CreatedOrders : orders[o].store_id = "s1" /\ orders[o].status = "pending"
    /\ \A o \in CreatedOrders : orders[o].store_id # "s2"
    /\ \E h \in Handlers :
          /\ Responded(h) /\ req[h].op = "checkout" /\ req[h].store = "s2"
          /\ req[h].result = "subscription_required" /\ ~req[h].gw

\* handler h is serving a request of this kind about order o
Serving(h, op, o) == req[h].op = op /\ req[h].reference = o

\* handler h has completed order o and has not yet written the ledger
Completing(h, o) ==
    \/ Serving(h, "verify_payment", o) /\ req[h].pc \in {"read_ledger", "write_ledger"}
    \/ Serving(h, "paystack_webhook", o)
          /\ req[h].pc \in {"hook_read_ledger", "hook_write_ledger"}

\* the poll of handler h ended without a success report from the gateway
NoSuccessReported(h, o) ==
    /\ Responded(h) /\ Serving(h, "verify_payment", o)
    /\ "answer" \in DOMAIN req[h]
    /\ ~GatewayReportsSuccess(req[h].answer)

\* the credits already applied for an order while a handler is completing it:
\* each took a request of its own, and the handler's own is still to come
CreditCounts == 0 .. MaxRequests - 1

\* C30 (range): the counts above are all the counts a completing handler sees
C30_CountsCovered ==
    \A h \in Handlers, o \in OrderRefs : Completing(h, o) => CreditsApplied(o) \in CreditCounts

\* C30 (step): the handler that completed an order leaves its ledger write
\* having applied one credit of the order's total, computed from the row it read.
C30_CreditStep ==
    \A h \in Handlers, o \in OrderRefs :
        (Completing(h, o) /\ Responded(h)')
        => /\ CreditsApplied(o)' = CreditsApplied(o) + 1
           /\ \E s \in Stores : stores' = WriteLedger(s, Credited(req[h].cur, orders[o].total_amount))

\* C30: under run-to-completion, a poll-verify processed for an order ends
\* with the order completed unless the gateway did not report success; a
\* verified charge.success webhook processed for an order ends with the order
\* completed; and a handler that has completed an order goes on to apply the
\* ledger credit for it.
C30_Liveness ==
    /\ [][C30_CreditStep]_vars
    /\ []C30_CountsCovered
    /\ \A h \in Handlers, o \in OrderRefs :
          /\ (Serving(h, "verify_payment", o) /\ req[h].pc = "read_order")
                ~> (orders[o].status = "completed" \/ NoSuccessReported(h, o))
          /\ (Serving(h, "paystack_webhook", o) /\ req[h].pc = "hook_read_order")
                ~> (orders[o].status = "completed")
          /\ \A n \in CreditCounts :
                (Completing(h, o) /\ CreditsApplied(o) = n) ~> (CreditsApplied(o) > n)

\* C30 witness: a poll-verify found Order2 pending, the gateway reported
\* success, and the handler has completed the order, applied its credit and
\* answered.
C30_Witness ==
    \E h \in Handlers :
        /\ Responded(h) /\ Serving(h, "verify_payment", Order2)
        /\ "answer" \in DOMAIN req[h] /\ GatewayReportsSuccess(req[h].answer)
        /\ orders[Order2].status = "completed"
        /\ pollCredits[Order2]["s1"] = 1
        /\ CreditsApplied(Order2) = 1
====
